---- MODULE Spec2Model ----
(***************************************************************************)
(* Model of the SESACO verification backend and report generation          *)
(* (src/streamlit_app.py): the in-memory DATABASE, the endpoints that      *)
(* change it, generar_reporte_empresa, and the reportes_page handler that  *)
(* consumes its response.                                                  *)
(*                                                                         *)
(* Percentages are integers in thousandths of a percent (80.00% = 80000),  *)
(* so that a two-decimal rounding and a threshold such as 79.999 can both  *)
(* be written down.                                                        *)
(***************************************************************************)
EXTENDS Integers, Sequences, FiniteSets, TLC

\* ------------------------------------------------------------------ bounds
\* most questions held together by the forms of a drawn history, most
\* questions held together by the forms of the growing store, most stored
\* forms, and the latest fecha a client may send
MaxPreguntas == 3
MaxPreguntasAlmacen == 2
MaxFormularios == 2
MaxFecha == 2
\* most things that fail while one report is generated (a chart, a logo that
\* cannot be decoded, a call outside the inner try blocks)
MaxFallas == 1
\* most questions of the one stored form of the histories under which the
\* failures of a report and the session's part in it are examined
MaxPreguntasFallas == 2
\* the greatest count a section's statistics carry when generate_pdf_report
\* is given statistics that no aggregation produced
MaxConteo == 1
\* most questions answered in a form submitted from the verification page
MaxRespondidas == 1

\* --------------------------------------------------------------- constants
CUMPLE == "Cumple"
NO_CUMPLE == "No cumple"
NO_APLICA == "No aplica"
SIN_RESPUESTA == "None"

Respuestas == {CUMPLE, NO_CUMPLE, NO_APLICA, SIN_RESPUESTA}
Secciones == {"S1", "S2"}
RUCs == {"r1", "r2"}
Fechas == 1..MaxFecha
\* FormularioVerificacion.fecha defaults to datetime.now() evaluated once,
\* when the class is defined: every form sent without a fecha carries it.
FechaPorDefecto == 1

\* the charts of one report: the overall pie, the bar chart, one pie per section
Graficos == {"general", "barras"} \cup Secciones
Logos == {"ninguno", "valido", "corrupto"}
Observaciones == {"", "texto"}
\* the texts generate_pdf_report may be given as general observations: the
\* empty one, one of white space only, and one with words
Textos == {"", " ", "texto"}

\* DATABASE["usuarios"], lines 77-84: the one account (its password is its
\* cedula), and a cedula that has no account
CedulaPrincipal == "1722212253"
Cedulas == {CedulaPrincipal, "0000000000"}
NombrePrincipal == "Inspector Principal"
\* Python's None, as the value of a key of st.session_state
NONE == "None"

VARIABLES
  empresas,     \* DATABASE["empresas"]: its keys, the registered RUCs
  fichas,       \* DATABASE["empresas"]: the record stored under each key
  formularios,  \* DATABASE["formularios"]: a dict, in insertion order
  vista,        \* the outcome of the last operation (response or page)
  pdf,          \* what the last call of generate_pdf_report returned
  llamada,      \* the arguments of that call and what failed during it
  excel,        \* the sheet written by the last Excel export
  sesion,       \* st.session_state: logged_in, token, user_info and the pages
  figuras,      \* the figures pyplot holds open, the current one last
  hilos         \* the script threads that generate a report at the same time

vars ==
  <<empresas, fichas, formularios, vista, pdf, llamada, excel, sesion, figuras, hilos>>

\* --------------------------------------------------------- pure functions
\* PreguntaVerificacion, reduced to the fields the aggregation reads.
PreguntaVerificacion == [seccion : Secciones, respuesta : Respuestas]

RECURSIVE SeqsUpTo(_, _)
SeqsUpTo(S, n) ==
  IF n = 0 THEN {<<>>}
  ELSE LET prev == SeqsUpTo(S, n - 1)
       IN prev \cup {Append(s, x) : s \in {p \in prev : Len(p) = n - 1}, x \in S}

\* Python's round(): nearest integer of n/d, ties to even.
RoundHalfEven(n, d) ==
  LET q == n \div d
      r == n % d
  IN IF 2 * r < d THEN q
     ELSE IF 2 * r > d THEN q + 1
     ELSE IF q % 2 = 0 THEN q ELSE q + 1

\* faulty variant: the ratio cut to two decimals instead of rounded
Round2PctTruncado(c, t) == 10 * ((10000 * c) \div t)

\* round((c / t) * 100, 2), in thousandths of a percent; lines 270-273.
Round2Pct(c, t) == 10 * RoundHalfEven(10000 * c, t)

\* One pass of the loop body of lines 248-268 over the section statistics
\* (a dict in insertion order, here a sequence of rows).
RowOf(secs, s) == CHOOSE i \in 1..Len(secs) : secs[i].seccion = s

ContarPregunta(secs, p) ==
  LET base == IF \E i \in 1..Len(secs) : secs[i].seccion = p.seccion
              THEN secs
              ELSE Append(secs, [seccion |-> p.seccion, total |-> 0, cumple |-> 0,
                                 no_cumple |-> 0, no_aplica |-> 0])
      k == RowOf(base, p.seccion)
      r == base[k]
  IN [base EXCEPT ![k] =
        [seccion   |-> r.seccion,
         total     |-> r.total + 1,
         cumple    |-> r.cumple + (IF p.respuesta = CUMPLE THEN 1 ELSE 0),
         no_cumple |-> r.no_cumple
                       + (IF p.respuesta # CUMPLE /\ p.respuesta = NO_CUMPLE THEN 1 ELSE 0),
         no_aplica |-> r.no_aplica
                       + (IF p.respuesta # CUMPLE /\ p.respuesta # NO_CUMPLE THEN 1 ELSE 0)]]

RECURSIVE ContarPreguntas(_, _)
ContarPreguntas(secs, ps) ==
  IF ps = <<>> THEN secs
  ELSE ContarPreguntas(ContarPregunta(secs, Head(ps)), Tail(ps))

\* faulty variant: only the most recent form is aggregated
SoloUltimoFormulario(fs) == IF fs = <<>> THEN <<>> ELSE fs[Len(fs)].preguntas

\* the questions the two nested loops of lines 247-248 visit, in order
RECURSIVE TodasLasPreguntas(_)
TodasLasPreguntas(fs) ==
  IF fs = <<>> THEN <<>>
  ELSE Head(fs).preguntas \o TodasLasPreguntas(Tail(fs))

\* faulty variant: NotApplicable answers are left out of the overall ratio's count
\* of compliant answers by counting them as compliant
RECURSIVE ContarNoIncumple(_)
ContarNoIncumple(ps) ==
  IF ps = <<>> THEN 0
  ELSE (IF Head(ps).respuesta \in {CUMPLE, NO_APLICA} THEN 1 ELSE 0)
       + ContarNoIncumple(Tail(ps))

RECURSIVE ContarCumple(_)
ContarCumple(ps) ==
  IF ps = <<>> THEN 0
  ELSE (IF Head(ps).respuesta = CUMPLE THEN 1 ELSE 0) + ContarCumple(Tail(ps))

RECURSIVE MaxFechaDe(_)
MaxFechaDe(fs) ==
  IF Len(fs) = 1 THEN fs[1].fecha
  ELSE LET m == MaxFechaDe(Tail(fs))
       IN IF Head(fs).fecha > m THEN Head(fs).fecha ELSE m

\* the list comprehension of lines 227-231
FormulariosDe(db, ruc) == SelectSeq(db, LAMBDA f : f.empresa_ruc = ruc)

SinEstadisticas ==
  [total_verificaciones |-> 0, ultima_verificacion |-> 0,
   cumplimiento_promedio |-> 0, secciones |-> <<>>]

SinFormulario == [empresa_ruc |-> "", fecha |-> 0, preguntas |-> <<>>]

\* faulty variant: a history without questions is refused (an EmptyCatalog failure)
generar_reporte_sin_catalogo(regs, db, empresa_ruc) ==
  LET fs == FormulariosDe(db, empresa_ruc)
      ps == TodasLasPreguntas(fs)
  IN IF empresa_ruc \notin regs \/ fs = <<>>
     THEN [status_code |-> 404, detail |-> "",
           estadisticas |-> SinEstadisticas, ultimo_formulario |-> SinFormulario]
     ELSE IF ps = <<>>
     THEN [status_code |-> 422, detail |-> "EmptyCatalog",
           estadisticas |-> SinEstadisticas, ultimo_formulario |-> SinFormulario]
     ELSE [status_code |-> 200, detail |-> "",
           estadisticas |->
             [total_verificaciones |-> Len(fs),
              ultima_verificacion |-> MaxFechaDe(fs),
              cumplimiento_promedio |-> Round2Pct(ContarCumple(ps), Len(ps)),
              secciones |-> ContarPreguntas(<<>>, ps)],
           ultimo_formulario |-> fs[Len(fs)]]

\* faulty variant: the check of line 233 is missing, and a company without forms
\* gets empty statistics
generar_reporte_sin_comprobar(regs, db, empresa_ruc) ==
  LET fs == FormulariosDe(db, empresa_ruc)
      ps == TodasLasPreguntas(fs)
  IN IF empresa_ruc \notin regs
     THEN [status_code |-> 404, detail |-> "Empresa no encontrada",
           estadisticas |-> SinEstadisticas, ultimo_formulario |-> SinFormulario]
     ELSE [status_code |-> 200, detail |-> "",
           estadisticas |->
             [total_verificaciones |-> Len(fs),
              ultima_verificacion |-> IF fs = <<>> THEN 0 ELSE MaxFechaDe(fs),
              cumplimiento_promedio |->
                IF ps # <<>> THEN Round2Pct(ContarCumple(ps), Len(ps)) ELSE 0,
              secciones |-> ContarPreguntas(<<>>, ps)],
           ultimo_formulario |-> IF fs = <<>> THEN SinFormulario ELSE fs[Len(fs)]]

\* GET /reportes/{empresa_ruc}: the response for the store (regs, db).
generar_reporte_empresa(regs, db, empresa_ruc) ==
  LET fs == FormulariosDe(db, empresa_ruc)
      ps == TodasLasPreguntas(fs)
      preguntas_totales == Len(ps)
      cumplimientos_totales == ContarCumple(ps)
  IN IF empresa_ruc \notin regs
     THEN [status_code |-> 404, detail |-> "Empresa no encontrada",
           estadisticas |-> SinEstadisticas, ultimo_formulario |-> SinFormulario]
     ELSE IF fs = <<>>
     THEN [status_code |-> 404, detail |-> "No hay formularios para esta empresa",
           estadisticas |-> SinEstadisticas, ultimo_formulario |-> SinFormulario]
     ELSE [status_code |-> 200, detail |-> "",
           estadisticas |->
             [total_verificaciones |-> Len(fs),
              ultima_verificacion |-> MaxFechaDe(fs),
              cumplimiento_promedio |->
                IF preguntas_totales > 0
                THEN Round2Pct(cumplimientos_totales, preguntas_totales)
                ELSE 0,
              secciones |-> ContarPreguntas(<<>>, ps)],
           ultimo_formulario |-> fs[Len(fs)]]

\* ------------------------------------------------- generate_pdf_report
\* A block written to the document: what it is, the section it belongs to,
\* its text and its numbers.
Bloque(tipo, seccion, txt, val) ==
  [tipo |-> tipo, seccion |-> seccion, txt |-> txt, val |-> val]

\* faulty variant: the thresholds are exclusive
EstadoEstricto(cumplimiento) ==
  IF cumplimiento > 80000 THEN "EXCELENTE"
  ELSE IF cumplimiento > 50000 THEN "ACEPTABLE"
  ELSE "INSUFICIENTE"

\* lines 1592-1604 (and again 1840-1864): cumplimiento in thousandths of a percent
Estado(cumplimiento) ==
  IF cumplimiento >= 80000 THEN "EXCELENTE"
  ELSE IF cumplimiento >= 50000 THEN "ACEPTABLE"
  ELSE "INSUFICIENTE"

\* faulty variant: the second test uses exclusive thresholds
RecomendacionesEstrictas(cumplimiento) ==
  IF cumplimiento > 80000 THEN "EXCELENTE"
  ELSE IF cumplimiento > 50000 THEN "ACEPTABLE"
  ELSE "INSUFICIENTE"

\* lines 1840-1864: the template of the recommendations, named by its tier
Recomendaciones(cumplimiento) ==
  IF cumplimiento >= 80000 THEN "EXCELENTE"
  ELSE IF cumplimiento >= 50000 THEN "ACEPTABLE"
  ELSE "INSUFICIENTE"

\* faulty variant: a negative no_aplica is taken for 0
TotalAplicableSaneado(datos) ==
  datos.total - (IF datos.no_aplica < 0 THEN 0 ELSE datos.no_aplica)

\* total_aplicable and f"{porcentaje:.1f}" of lines 1676-1677, 1720-1721 and
\* 1745-1746, in thousandths of a percent
TotalAplicable(datos) == datos.total - datos.no_aplica

\* faulty variant: the percentage is taken over all items of the section
PorcentajeSobreTotal(datos) ==
  IF datos.total > 0
  THEN 100 * RoundHalfEven(1000 * datos.cumple, datos.total)
  ELSE 0

\* faulty variant: a section without applicable items counts as fully compliant
PorcentajeVacioCompleto(datos) ==
  IF TotalAplicable(datos) > 0
  THEN 100 * RoundHalfEven(1000 * datos.cumple, TotalAplicable(datos))
  ELSE 100000

Porcentaje(datos) ==
  IF TotalAplicable(datos) > 0
  THEN 100 * RoundHalfEven(1000 * datos.cumple, TotalAplicable(datos))
  ELSE 0

RECURSIVE Suma(_, _)
Suma(secs, campo) ==
  IF secs = <<>> THEN 0 ELSE Head(secs)[campo] + Suma(Tail(secs), campo)

\* faulty variant: the except branch of a chart writes nothing
GraficoSinAviso(id, tipo, seccion, val, entorno) ==
  IF id \in entorno.fallidos THEN <<>> ELSE <<Bloque(tipo, seccion, "", val)>>

\* a chart block, or the text written by the except branch of its try
Grafico(id, tipo, seccion, val, entorno) ==
  IF id \in entorno.fallidos
  THEN <<Bloque("grafico_no_disponible", seccion, "", <<>>)>>
  ELSE <<Bloque(tipo, seccion, "", val)>>

\* a chart that fails after its temporary file was created never reaches
\* os.unlink (lines 1640-1649, 1694-1703, 1766-1772)
TmpRestantes(ids, entorno) ==
  IF entorno.modo = "con_tmp" THEN Cardinality(ids \cap entorno.fallidos) ELSE 0

\* faulty variant: a logo that cannot be decoded leaves its slot empty
LogoSinTexto(slot, logo) ==
  IF logo = "valido" THEN <<Bloque("logo_imagen", "", slot, <<>>)>> ELSE <<>>

\* faulty variant: a slot without logo gets the text of a logo that cannot be
\* decoded
LogoConMarcador(slot, logo) ==
  IF logo = "valido" THEN <<Bloque("logo_imagen", "", slot, <<>>)>>
  ELSE <<Bloque("logo_texto", "", slot, <<>>)>>

\* lines 1517-1544: a logo slot
Logo(slot, logo) ==
  IF logo = "ninguno" THEN <<>>
  ELSE IF logo = "valido" THEN <<Bloque("logo_imagen", "", slot, <<>>)>>
  ELSE <<Bloque("logo_texto", "", slot, <<>>)>>

\* st.session_state.get('user_info', {}).get(campo, defecto), lines 1568, 1569
\* and 1894: user_info is <<>> (the empty dict of line 326) or
\* <<nombre, cedula>> (lines 562-566)
UserInfo(i, defecto) ==
  IF sesion.user_info = <<>> THEN defecto ELSE sesion.user_info[i]

\* lines 1514-1583: the two logo slots, the title with the company's name and
\* RUC, and the table of general information with the inspector of the session
Encabezado(empresa, entorno) ==
  Logo("sesaco", entorno.logo_sesaco) \o Logo("empresa", entorno.logo_empresa)
  \o <<Bloque("titulo", "", empresa, <<>>),
       Bloque("informacion_general", "", empresa,
              <<UserInfo(1, "N/A"), UserInfo(2, "N/A")>>)>>

\* lines 1585-1663
ResumenEjecutivo(estadisticas, entorno) ==
  LET secs == estadisticas.secciones
      cumplimiento == estadisticas.cumplimiento_promedio
      total_cumple == Suma(secs, "cumple")
      total_no_cumple == Suma(secs, "no_cumple")
      total_no_aplica == Suma(secs, "no_aplica")
  IN <<Bloque("estado_general", "", Estado(cumplimiento), <<cumplimiento>>)>>
     \o Grafico("general", "grafico_pastel", "",
                <<total_cumple, total_no_cumple, total_no_aplica>>, entorno)
     \o <<Bloque("narrativa", "", Estado(cumplimiento),
                 <<Suma(secs, "total"), total_no_cumple>>)>>

\* lines 1665-1729
EstadisticasDetalladas(estadisticas, entorno) ==
  LET secs == estadisticas.secciones
  IN Grafico("barras", "grafico_barras", "",
             [i \in 1..Len(secs) |-> Porcentaje(secs[i])], entorno)
     \o [i \in 1..Len(secs) |->
           Bloque("fila_tabla", secs[i].seccion, "",
                  <<secs[i].total, secs[i].cumple, secs[i].no_cumple,
                    Porcentaje(secs[i])>>)]

\* faulty variant: the listing does not filter by section
RECURSIVE NoConformidadesSinSeccion(_, _, _)
NoConformidadesSinSeccion(preguntas, seccion, i) ==
  IF i > Len(preguntas) THEN <<>>
  ELSE (IF preguntas[i].respuesta = NO_CUMPLE THEN <<i>> ELSE <<>>)
       \o NoConformidadesSinSeccion(preguntas, seccion, i + 1)

\* line 1805: the positions in preguntas of the section's non-conformities
RECURSIVE NoConformidades(_, _, _)
NoConformidades(preguntas, seccion, i) ==
  IF i > Len(preguntas) THEN <<>>
  ELSE (IF preguntas[i].seccion = seccion /\ preguntas[i].respuesta = NO_CUMPLE
        THEN <<i>> ELSE <<>>)
       \o NoConformidades(preguntas, seccion, i + 1)

\* lines 1737-1821, one pass of the loop
DetalleSeccion(secs, i, preguntas, entorno) ==
  LET datos == secs[i]
      preguntas_no_cumplen == NoConformidades(preguntas, datos.seccion, 1)
  IN (IF i > 1 THEN <<Bloque("salto_pagina", "", "", <<>>)>> ELSE <<>>)
     \o <<Bloque("seccion_titulo", datos.seccion, "", <<>>)>>
     \o Grafico(datos.seccion, "grafico_pastel", datos.seccion,
                <<datos.cumple, datos.no_cumple, datos.no_aplica>>, entorno)
     \o <<Bloque("seccion_porcentaje", datos.seccion, "", <<Porcentaje(datos)>>),
          Bloque("seccion_indicadores", datos.seccion, "",
                 <<datos.total, datos.no_aplica, TotalAplicable(datos),
                   datos.cumple, datos.no_cumple>>)>>
     \o (IF preguntas_no_cumplen # <<>>
         THEN <<Bloque("no_conformidades", datos.seccion, "", preguntas_no_cumplen)>>
         ELSE <<>>)

RECURSIVE DetallePorSeccion(_, _, _, _)
DetallePorSeccion(secs, i, preguntas, entorno) ==
  IF i > Len(secs) THEN <<>>
  ELSE DetalleSeccion(secs, i, preguntas, entorno)
       \o DetallePorSeccion(secs, i + 1, preguntas, entorno)

\* faulty variant: the conclusions come before the recommendations
CierreDesordenado(empresa, estadisticas, observaciones_generales) ==
  LET cumplimiento == estadisticas.cumplimiento_promedio
  IN <<Bloque("salto_pagina", "", "", <<>>),
       Bloque("observaciones_generales", "",
              IF observaciones_generales # "" THEN observaciones_generales
              ELSE "No se registraron observaciones generales.", <<>>),
       Bloque("conclusiones", "", Estado(cumplimiento), <<cumplimiento>>),
       Bloque("recomendaciones", "", Recomendaciones(cumplimiento), <<>>),
       Bloque("firma", "", UserInfo(1, ""), <<>>),
       Bloque("pie_de_pagina", "", "", <<>>)>>

\* lines 1823-1916
Cierre(empresa, estadisticas, observaciones_generales) ==
  LET cumplimiento == estadisticas.cumplimiento_promedio
  IN <<Bloque("salto_pagina", "", "", <<>>),
       Bloque("observaciones_generales", "",
              IF observaciones_generales # "" THEN observaciones_generales
              ELSE "No se registraron observaciones generales.", <<>>),
       Bloque("recomendaciones", "", Recomendaciones(cumplimiento), <<>>),
       Bloque("conclusiones", "", Estado(cumplimiento), <<cumplimiento>>),
       Bloque("firma", "", UserInfo(1, ""), <<>>),
       Bloque("pie_de_pagina", "", "", <<>>)>>

\* lines 1922-1930: the handler writes the text of the exception with a core
\* font; a text the font cannot encode makes cell() raise again, and nothing
\* catches that
PdfDeError(entorno) ==
  IF entorno.grave = "mensaje_no_latin1"
  THEN [tipo |-> "excepcion", bloques |-> <<>>, tmp |-> 0]
  ELSE [tipo |-> "error",
        bloques |-> <<Bloque("error_titulo", "", "Error al generar el reporte", <<>>),
                      Bloque("error_detalle", "", "Detalles", <<>>)>>,
        tmp |-> 0]

\* the charts of a report with these section statistics
GraficosDe(secs) == {"general", "barras"} \cup {secs[i].seccion : i \in 1..Len(secs)}

generate_pdf_report(empresa, estadisticas, preguntas, observaciones_generales, entorno) ==
  IF entorno.grave # "no"
  THEN [PdfDeError(entorno) EXCEPT !.tmp =
          IF entorno.punto = "final"
          THEN TmpRestantes(GraficosDe(estadisticas.secciones), entorno)
          ELSE 0]
  ELSE [tipo |-> "informe",
        bloques |->
          Encabezado(empresa, entorno)
          \o ResumenEjecutivo(estadisticas, entorno)
          \o EstadisticasDetalladas(estadisticas, entorno)
          \o <<Bloque("detalle_por_seccion", "", "", <<>>)>>
          \o DetallePorSeccion(estadisticas.secciones, 1, preguntas, entorno)
          \o Cierre(empresa, estadisticas, observaciones_generales),
        tmp |-> TmpRestantes(GraficosDe(estadisticas.secciones), entorno)]

\* ------------------------------------------------------------ environment
\* What can go wrong while one report is generated: charts that fail (before
\* or after their temporary file exists), logos that cannot be decoded, and
\* a call outside the inner try blocks that raises, at the start of the
\* report or after its last chart, with a message the core font can or
\* cannot encode.
NumFallas(e) ==
  Cardinality(e.fallidos)
  + (IF e.logo_sesaco = "corrupto" THEN 1 ELSE 0)
  + (IF e.logo_empresa = "corrupto" THEN 1 ELSE 0)
  + (IF e.grave # "no" THEN 1 ELSE 0)

Entornos(max) ==
  {e \in [logo_sesaco : Logos, logo_empresa : Logos,
          fallidos : {f \in SUBSET Graficos : Cardinality(f) <= max},
          modo : {"sin_tmp", "con_tmp"},
          grave : {"no", "mensaje_latin1", "mensaje_no_latin1"},
          punto : {"inicio", "final"}] :
     /\ NumFallas(e) <= max
     /\ (e.fallidos = {} => e.modo = "sin_tmp")
     /\ (e.grave = "no" => e.punto = "inicio")}

\* no logo is uploaded and no call fails
EntornoNominal ==
  [logo_sesaco |-> "ninguno", logo_empresa |-> "ninguno", fallidos |-> {},
   modo |-> "sin_tmp", grave |-> "no", punto |-> "inicio"]

\* ---------------------------------------------------------- Excel export
\* The answers as the texts the form offers (line 1437) and the rules look
\* for (lines 2048, 2055, 2062), word by word; an unanswered question has
\* respuesta None, which pandas writes as an empty cell.
TextoDe(respuesta) ==
  IF respuesta = CUMPLE THEN <<"(visto)", "Cumple">>
  ELSE IF respuesta = NO_CUMPLE THEN <<"(equis)", "No", "cumple">>
  ELSE IF respuesta = NO_APLICA THEN <<"(raya)", "No", "aplica">>
  ELSE <<>>

\* the search of a 'containing' rule does not tell upper from lower case
Minuscula(palabra) ==
  IF palabra = "Cumple" THEN "cumple"
  ELSE IF palabra = "No" THEN "no"
  ELSE palabra

\* criteria 'containing': valor occurs in texto as a run of words
Contiene(texto, valor) ==
  \E i \in 0..(Len(texto) - Len(valor)) :
    \A j \in 1..Len(valor) : Minuscula(texto[i + j]) = Minuscula(valor[j])

\* faulty variant: the rules look for the answers without their leading sign
ReglasSinSigno ==
  <<[valor |-> <<"Cumple">>, formato |-> "format_green"],
    [valor |-> <<"No", "cumple">>, formato |-> "format_red"],
    [valor |-> <<"No", "aplica">>, formato |-> "format_gray"]>>

\* the three conditional_format calls of lines 2045-2064, on E2:E1000
Reglas ==
  <<[valor |-> <<"(visto)", "Cumple">>, formato |-> "format_green"],
    [valor |-> <<"(equis)", "No", "cumple">>, formato |-> "format_red"],
    [valor |-> <<"(raya)", "No", "aplica">>, formato |-> "format_gray"]>>

\* the rules cover E2:E1000, the first 999 data rows
FilasConFormato == 999

Columnas ==
  <<"Seccion", "Categoria", "Pregunta", "Normativa", "Cumplimiento", "Observaciones">>

\* faulty variant: the questions without an answer get no row
RECURSIVE FilasSoloRespondidas(_)
FilasSoloRespondidas(preguntas) ==
  IF preguntas = <<>> THEN <<>>
  ELSE (IF Head(preguntas).respuesta = SIN_RESPUESTA THEN <<>>
        ELSE <<[seccion |-> Head(preguntas).seccion,
                cumplimiento |-> TextoDe(Head(preguntas).respuesta)]>>)
       \o FilasSoloRespondidas(Tail(preguntas))

\* lines 2018-2029: one dict per question of ultimo_formulario
FilasExcel(preguntas) ==
  [i \in 1..Len(preguntas) |->
     [seccion |-> preguntas[i].seccion,
      cumplimiento |-> TextoDe(preguntas[i].respuesta)]]

\* the formats the rules give to the Cumplimiento cell of data row i
Estilos(fila, i) ==
  IF i > FilasConFormato THEN {}
  ELSE {Reglas[r].formato : r \in {k \in 1..Len(Reglas) :
                                     Contiene(fila.cumplimiento, Reglas[k].valor)}}

\* lines 2018-2070: the sheet, its header row, its data rows and the format
\* of each row's Cumplimiento cell
exportar_excel(preguntas) ==
  LET filas == FilasExcel(preguntas)
  IN [hecho |-> TRUE, columnas |-> Columnas,
      filas |-> [i \in 1..Len(filas) |->
                   [seccion |-> filas[i].seccion,
                    cumplimiento |-> filas[i].cumplimiento,
                    estilos |-> Estilos(filas[i], i)]]]

\* ----------------------------------------------------------------- state
\* Empresa, lines 43-58, reduced to its key and its name
RazonesSociales == {"a", "b"}
Empresa == [ruc : RUCs, razon_social : RazonesSociales]
\* the store in which these RUCs were registered under the first name
FichasDe(rucs) == [r \in rucs |-> [ruc |-> r, razon_social |-> "a"]]

SinVista ==
  [operacion |-> "ninguna", cedula |-> "", ruc |-> "", status_code |-> 0,
   resultado |-> "",
   estadisticas |-> SinEstadisticas, ultimo_formulario |-> SinFormulario,
   pdf_solicitado |-> FALSE]

PdfPendiente == [tipo |-> "pendiente", bloques |-> <<>>, tmp |-> 0]

SinLlamada ==
  [hecha |-> FALSE, empresa |-> "", estadisticas |-> SinEstadisticas,
   preguntas |-> <<>>, observaciones_generales |-> "", entorno |-> EntornoNominal]

Llamada(empresa, estadisticas, preguntas, observaciones_generales, entorno) ==
  [hecha |-> TRUE, empresa |-> empresa, estadisticas |-> estadisticas,
   preguntas |-> preguntas, observaciones_generales |-> observaciones_generales,
   entorno |-> entorno]

SinExcel == [hecho |-> FALSE, columnas |-> <<>>, filas |-> <<>>]

\* the two script threads of the process, and a thread that generates nothing
Hilos == {"A", "B"}
HiloParado == [ruc |-> "", pc |-> "fin", k |-> 0, graficos |-> <<>>]
SinHilos == [h \in Hilos |-> HiloParado]

\* lines 321-334, and the session after the one account has logged in
\* (lines 560-567) and has opened the reports page from the menu (lines
\* 589-593)
SesionInicial ==
  [logged_in |-> FALSE, token |-> NONE, user_info |-> <<>>,
   current_page |-> "inicio", previous_page |-> NONE]
SesionIniciada ==
  [logged_in |-> TRUE, token |-> CedulaPrincipal,
   user_info |-> <<NombrePrincipal, CedulaPrincipal>>,
   current_page |-> "reportes", previous_page |-> "dashboard"]

\* main, lines 2198-2208: the page a run of the script renders
Pagina ==
  IF ~sesion.logged_in THEN "login"
  ELSE IF sesion.current_page \in {"dashboard", "gestion_empresas",
                                   "formulario_verificacion", "reportes"}
  THEN sesion.current_page
  ELSE "ninguna"

Init ==
  /\ empresas = {}
  /\ fichas = FichasDe({})
  /\ formularios = <<>>
  /\ vista = SinVista
  /\ pdf = PdfPendiente
  /\ llamada = SinLlamada
  /\ excel = SinExcel
  /\ figuras = <<>>
  /\ hilos = SinHilos
  /\ sesion = SesionIniciada

\* Depends(oauth2_scheme), line 34 and the signature of every endpoint but
\* /token and /formularios/estructura: a request without bearer token is
\* answered 401 before the endpoint runs; any token is handed to the
\* endpoint as cedula, and no endpoint but /usuarios/me looks it up
SIN_TOKEN == ""
Tokens == Cedulas \cup {NONE, SIN_TOKEN}
NoAutenticado(operacion, cedula) ==
  [SinVista EXCEPT !.operacion = operacion, !.cedula = cedula, !.status_code = 401]

\* faulty variant: a registered RUC is registered again with the new record
crear_o_reemplazar_empresa(empresa, cedula) ==
  /\ IF cedula = SIN_TOKEN
     THEN /\ vista' = NoAutenticado("crear_empresa", cedula)
          /\ UNCHANGED <<empresas, fichas>>
     ELSE /\ empresas' = empresas \cup {empresa.ruc}
          /\ fichas' = [r \in empresas \cup {empresa.ruc} |->
                          IF r = empresa.ruc THEN empresa ELSE fichas[r]]
          /\ vista' = [SinVista EXCEPT !.operacion = "crear_empresa",
                                       !.cedula = cedula,
                                       !.ruc = empresa.ruc,
                                       !.status_code = 200,
                                       !.resultado = empresa.razon_social]
  /\ UNCHANGED <<formularios, pdf, llamada, excel, sesion, figuras, hilos>>

\* POST /empresas/, lines 177-182
crear_empresa(empresa, cedula) ==
  /\ IF cedula = SIN_TOKEN
     THEN /\ vista' = NoAutenticado("crear_empresa", cedula)
          /\ UNCHANGED <<empresas, fichas>>
     ELSE IF empresa.ruc \in empresas
     THEN /\ vista' = [SinVista EXCEPT !.operacion = "crear_empresa",
                                       !.cedula = cedula,
                                       !.ruc = empresa.ruc,
                                       !.status_code = 400]
          /\ UNCHANGED <<empresas, fichas>>
     ELSE /\ empresas' = empresas \cup {empresa.ruc}
          /\ fichas' = [r \in empresas \cup {empresa.ruc} |->
                          IF r = empresa.ruc THEN empresa ELSE fichas[r]]
          /\ vista' = [SinVista EXCEPT !.operacion = "crear_empresa",
                                       !.cedula = cedula,
                                       !.ruc = empresa.ruc,
                                       !.status_code = 200,
                                       !.resultado = empresa.razon_social]
  /\ UNCHANGED <<formularios, pdf, llamada, excel, sesion, figuras, hilos>>

\* GET /empresas/{ruc}, lines 171-175
buscar_empresa(ruc, cedula) ==
  /\ vista' = IF cedula = SIN_TOKEN THEN NoAutenticado("buscar_empresa", cedula)
              ELSE IF ruc \in empresas
              THEN [SinVista EXCEPT !.operacion = "buscar_empresa",
                                    !.cedula = cedula,
                                    !.ruc = ruc,
                                    !.status_code = 200,
                                    !.resultado = fichas[ruc].razon_social]
              ELSE [SinVista EXCEPT !.operacion = "buscar_empresa",
                                    !.cedula = cedula,
                                    !.ruc = ruc,
                                    !.status_code = 404]
  /\ UNCHANGED <<empresas, fichas, formularios, pdf, llamada, excel, sesion,
                 figuras, hilos>>

\* faulty variant: every save adds a form
GuardarSiempre(db, f) == Append(db, f)

\* DATABASE["formularios"][formulario_id] = ..., lines 203-204: a new key is
\* appended, an existing key keeps its place and gets the new value. The key
\* is the RUC and the text fecha.isoformat() gives, which spells out every
\* field of the datetime: two keys are equal when the RUCs are and the
\* fechas are field by field.
Guardar(db, f) ==
  IF \E i \in 1..Len(db) : db[i].empresa_ruc = f.empresa_ruc /\ db[i].fecha = f.fecha
  THEN [i \in 1..Len(db) |->
          IF db[i].empresa_ruc = f.empresa_ruc /\ db[i].fecha = f.fecha
          THEN f ELSE db[i]]
  ELSE Append(db, f)

NumPreguntas(db) == Len(TodasLasPreguntas(db))

\* the room the store has left for the questions of a form saved under
\* (ruc, fecha); -1 when the store cannot take another form
Capacidad(ruc, fecha) ==
  LET otros == SelectSeq(formularios,
                         LAMBDA f : ~(f.empresa_ruc = ruc /\ f.fecha = fecha))
  IN IF Len(otros) >= MaxFormularios THEN -1
     ELSE MaxPreguntasAlmacen - NumPreguntas(otros)

\* POST /formularios/, lines 197-205
guardar_formulario(ruc, fecha, preguntas, cedula) ==
  /\ IF cedula = SIN_TOKEN
     THEN /\ vista' = NoAutenticado("guardar_formulario", cedula)
          /\ UNCHANGED formularios
     ELSE /\ formularios' = Guardar(formularios,
                                    [empresa_ruc |-> ruc, fecha |-> fecha,
                                     preguntas |-> preguntas])
          /\ vista' = [SinVista EXCEPT !.operacion = "guardar_formulario",
                                       !.cedula = cedula,
                                       !.ruc = ruc,
                                       !.status_code = 200,
                                       !.ultimo_formulario =
                                          [empresa_ruc |-> ruc, fecha |-> fecha,
                                           preguntas |-> preguntas]]
  /\ UNCHANGED <<empresas, fichas, pdf, llamada, excel, sesion, figuras, hilos>>

\* GET /reportes/{empresa_ruc}, lines 219-279, called by any client
get_reporte(ruc, cedula) ==
  LET response == generar_reporte_empresa(empresas, formularios, ruc)
  IN /\ vista' = IF cedula = SIN_TOKEN
                 THEN NoAutenticado("generar_reporte_empresa", cedula)
                 ELSE [SinVista EXCEPT !.operacion = "generar_reporte_empresa",
                                       !.cedula = cedula,
                                       !.ruc = ruc,
                                       !.status_code = response.status_code,
                                       !.estadisticas = response.estadisticas,
                                       !.ultimo_formulario = response.ultimo_formulario]
     /\ UNCHANGED <<empresas, fichas, formularios, pdf, llamada, excel, sesion, figuras, hilos>>

\* the requests of a client that holds the token of the one account
Next ==
  \/ \E ruc \in RUCs : crear_empresa(FichasDe({ruc})[ruc], CedulaPrincipal)
  \/ \E ruc \in RUCs, fecha \in Fechas \cup {FechaPorDefecto} :
       /\ Capacidad(ruc, fecha) >= 0
       /\ \E preguntas \in SeqsUpTo(PreguntaVerificacion, Capacidad(ruc, fecha)) :
            guardar_formulario(ruc, fecha, preguntas, CedulaPrincipal)
  \/ \E ruc \in RUCs : get_reporte(ruc, CedulaPrincipal)

Spec == Init /\ [][Next]_vars

\* ------------------------------------------------ requests of any client
\* Companies are registered and looked up, and the report of a company is
\* asked for, by clients that send the token of the one account, a token
\* that is no account's cedula, the text None (what the pages send when the
\* session holds no token), or no token at all.
NextEmpresas ==
  \/ \E empresa \in Empresa, cedula \in Tokens : crear_empresa(empresa, cedula)
  \/ \E ruc \in RUCs, cedula \in Tokens : buscar_empresa(ruc, cedula)
  \/ \E ruc \in RUCs, cedula \in Tokens :
       guardar_formulario(ruc, FechaPorDefecto, <<>>, cedula)
  \/ \E ruc \in RUCs, cedula \in Tokens : get_reporte(ruc, cedula)

SpecEmpresas == Init /\ [][NextEmpresas]_vars

\* ------------------------------------------- fechas with a UTC offset
\* A client of POST /formularios/ may send a fecha without UTC offset (as
\* the default of line 72 is) or with one: pydantic keeps the offset, and
\* isoformat() writes the local time followed by it. hora is the local time.
Zonas == {"", "+00:00", "+01:00"}
FechasConZona == [hora : Fechas, zona : Zonas]
FechaPorDefectoSinZona == [hora |-> FechaPorDefecto, zona |-> ""]

Desfase(zona) == IF zona = "+01:00" THEN 1 ELSE 0

\* datetime.__eq__: two fechas with offsets are equal when they are the
\* same instant, two without when their fields are equal, and one with and
\* one without never
MismoInstante(a, b) ==
  IF a.zona = "" \/ b.zona = "" THEN a = b
  ELSE a.hora - Desfase(a.zona) = b.hora - Desfase(b.zona)

InitClaves ==
  /\ empresas = RUCs
  /\ fichas = FichasDe(RUCs)
  /\ formularios = <<>>
  /\ vista = SinVista
  /\ pdf = PdfPendiente
  /\ llamada = SinLlamada
  /\ excel = SinExcel
  /\ sesion = SesionIniciada
  /\ figuras = <<>>
  /\ hilos = SinHilos

NextClaves ==
  \E ruc \in RUCs, fecha \in FechasConZona \cup {FechaPorDefectoSinZona} :
    /\ Capacidad(ruc, fecha) >= 0
    /\ \E preguntas \in SeqsUpTo(PreguntaVerificacion, Capacidad(ruc, fecha)) :
         guardar_formulario(ruc, fecha, preguntas, CedulaPrincipal)

SpecClaves == InitClaves /\ [][NextClaves]_vars

\* ------------------------------------------------ the report of a history
\* formularios is a store of n more forms of company "r1" after those of
\* db, saved in the order of their fechas, with up to np questions together.
RECURSIVE EsHistoria(_, _, _)
EsHistoria(db, n, np) ==
  IF n = 0 THEN formularios = db
  ELSE \E preguntas \in SeqsUpTo(PreguntaVerificacion, np) :
         EsHistoria(Append(db, [empresa_ruc |-> "r1", fecha |-> Len(db) + 1,
                                preguntas |-> preguntas]),
                    n - 1, np - Len(preguntas))

InitInforme ==
  /\ empresas = {"r1"}
  /\ fichas = FichasDe({"r1"})
  /\ \E n \in 0..MaxFormularios : EsHistoria(<<>>, n, MaxPreguntas)
  /\ vista = SinVista
  /\ pdf = PdfPendiente
  /\ llamada = SinLlamada
  /\ excel = SinExcel
  /\ figuras = <<>>
  /\ hilos = SinHilos
  /\ sesion = SesionIniciada

\* reportes_page, lines 1940-2076 and 2178-2180: the request, what the page
\* shows for the response and, when a button was pressed in this run of the
\* page, the call of generate_pdf_report or the Excel export
reportes_page(ruc, boton_pdf, boton_excel, observaciones_generales, entorno) ==
  LET response == generar_reporte_empresa(empresas, formularios, ruc)
      obs_generales == IF observaciones_generales # "" THEN observaciones_generales
                       ELSE "Sin observaciones"
  IN /\ Pagina = "reportes"
     /\ ~(boton_pdf /\ boton_excel)
     /\ IF response.status_code = 200
        THEN /\ vista' = [operacion |-> "reportes_page", cedula |-> "", ruc |-> ruc,
                          status_code |-> 200, resultado |-> "reporte",
                          estadisticas |-> response.estadisticas,
                          ultimo_formulario |-> response.ultimo_formulario,
                          pdf_solicitado |-> boton_pdf]
             /\ pdf' = IF boton_pdf
                       THEN generate_pdf_report(ruc, response.estadisticas,
                                                response.ultimo_formulario.preguntas,
                                                obs_generales, entorno)
                       ELSE pdf
             /\ llamada' = IF boton_pdf
                           THEN Llamada(ruc, response.estadisticas,
                                        response.ultimo_formulario.preguntas,
                                        obs_generales, entorno)
                           ELSE llamada
             /\ excel' = IF boton_excel
                         THEN exportar_excel(response.ultimo_formulario.preguntas)
                         ELSE excel
        ELSE /\ vista' = [SinVista EXCEPT !.operacion = "reportes_page",
                                          !.ruc = ruc,
                                          !.status_code = response.status_code,
                                          !.resultado = "datos_insuficientes"]
             /\ UNCHANGED <<pdf, llamada, excel>>
     /\ UNCHANGED <<empresas, fichas, formularios, sesion, figuras, hilos>>

\* the page is opened once for either company, with or without the PDF
\* button pressed, no logo is uploaded and no call fails
NextConsulta ==
  \E ruc \in RUCs, boton_pdf \in BOOLEAN, boton_excel \in BOOLEAN :
    /\ vista = SinVista
    /\ reportes_page(ruc, boton_pdf, boton_excel, "", EntornoNominal)

SpecConsulta == InitInforme /\ [][NextConsulta]_vars

\* the page is opened, with or without the PDF button pressed
NextInforme ==
  \/ \E ruc \in RUCs :
       /\ vista = SinVista
       /\ reportes_page(ruc, FALSE, FALSE, "", EntornoNominal)
  \/ \E observaciones_generales \in Observaciones, entorno \in Entornos(MaxFallas) :
       /\ vista = SinVista
       /\ reportes_page("r1", TRUE, FALSE, observaciones_generales, entorno)

SpecInforme == InitInforme /\ [][NextInforme]_vars

\* ------------------------------------------- the failures of one report
\* One form of company "r1" is stored and the page is opened with the PDF
\* button pressed, in every environment.
InitFallas ==
  /\ empresas = {"r1"}
  /\ fichas = FichasDe({"r1"})
  /\ EsHistoria(<<>>, 1, MaxPreguntasFallas)
  /\ vista = SinVista
  /\ pdf = PdfPendiente
  /\ llamada = SinLlamada
  /\ excel = SinExcel
  /\ figuras = <<>>
  /\ hilos = SinHilos
  /\ sesion = SesionIniciada

NextFallas ==
  \E entorno \in Entornos(MaxFallas) :
    /\ vista = SinVista
    /\ reportes_page("r1", TRUE, FALSE, "texto", entorno)

SpecFallas == InitFallas /\ [][NextFallas]_vars

\* ------------------------------------------------ the session of a call
\* POST /token, lines 143-157: the account exists and the password is its own
login(username, password) ==
  IF username = CedulaPrincipal /\ password = CedulaPrincipal
  THEN [status_code |-> 200, access_token |-> username, nombre |-> NombrePrincipal]
  ELSE [status_code |-> 401, access_token |-> "", nombre |-> ""]

\* login_page, lines 547-571
login_page(cedula, password) ==
  LET response == login(cedula, password)
  IN /\ Pagina = "login"
     /\ sesion' = IF response.status_code = 200
                  THEN [sesion EXCEPT !.logged_in = TRUE,
                                      !.token = response.access_token,
                                      !.user_info = <<response.nombre, cedula>>,
                                      !.current_page = "dashboard"]
                  ELSE sesion
     /\ vista' = [SinVista EXCEPT !.operacion = "login_page",
                                  !.status_code = response.status_code]
     /\ UNCHANGED <<empresas, fichas, formularios, pdf, llamada, excel, figuras, hilos>>

\* faulty variant: the session keeps its token
cerrar_sesion_con_token ==
  /\ Pagina = "dashboard"
  /\ sesion' = [sesion EXCEPT !.logged_in = FALSE, !.current_page = "inicio"]
  /\ vista' = [SinVista EXCEPT !.operacion = "cerrar_sesion"]
  /\ UNCHANGED <<empresas, fichas, formularios, pdf, llamada, excel, figuras, hilos>>

\* the button of lines 595-599, on the dashboard: user_info and
\* previous_page stay as they are
cerrar_sesion ==
  /\ Pagina = "dashboard"
  /\ sesion' = [sesion EXCEPT !.logged_in = FALSE, !.token = NONE,
                              !.current_page = "inicio"]
  /\ vista' = [SinVista EXCEPT !.operacion = "cerrar_sesion"]
  /\ UNCHANGED <<empresas, fichas, formularios, pdf, llamada, excel, figuras, hilos>>

\* generate_pdf_report called as a function of the module, by reportes_page
\* or by another caller, with the report of company "r1" as its arguments,
\* whatever the session holds at that moment
llamar_generate_pdf_report(observaciones_generales, entorno) ==
  LET response == generar_reporte_empresa(empresas, formularios, "r1")
  IN /\ response.status_code = 200
     /\ pdf' = generate_pdf_report("r1", response.estadisticas,
                                   response.ultimo_formulario.preguntas,
                                   observaciones_generales, entorno)
     /\ llamada' = Llamada("r1", response.estadisticas,
                           response.ultimo_formulario.preguntas,
                           observaciones_generales, entorno)
     /\ vista' = [SinVista EXCEPT !.operacion = "generate_pdf_report"]
     /\ UNCHANGED <<empresas, fichas, formularios, excel, sesion, figuras, hilos>>

InitSesion ==
  /\ empresas = {"r1"}
  /\ fichas = FichasDe({"r1"})
  /\ EsHistoria(<<>>, 1, MaxPreguntasFallas)
  /\ vista = SinVista
  /\ pdf = PdfPendiente
  /\ llamada = SinLlamada
  /\ excel = SinExcel
  /\ figuras = <<>>
  /\ hilos = SinHilos
  /\ sesion = SesionInicial

NextSesion ==
  \/ \E cedula \in Cedulas, password \in Cedulas : login_page(cedula, password)
  \/ cerrar_sesion
  \/ \E observaciones_generales \in Observaciones :
       llamar_generate_pdf_report(observaciones_generales, EntornoNominal)

SpecSesion == InitSesion /\ [][NextSesion]_vars

\* one call of the function for the stored form, with any text and in any
\* environment
NextLlamada ==
  \E observaciones_generales \in Textos, entorno \in Entornos(MaxFallas) :
    /\ ~llamada.hecha
    /\ llamar_generate_pdf_report(observaciones_generales, entorno)

SpecLlamada == InitFallas /\ [][NextLlamada]_vars

\* ------------------------------------------------- the verification form
\* PREGUNTAS_SST, lines 853-1402: the sections of the catalog in their
\* order, the letters the ids of a section's questions start with, and the
\* number of its questions, whose ids end in 1, 2, ... in the catalog's order
SeccionesSST ==
  <<[seccion |-> "Gestion Administrativa", prefijo |-> "ga", preguntas |-> 10],
    [seccion |-> "Gestion Tecnica", prefijo |-> "gt", preguntas |-> 36],
    [seccion |-> "Gestion Talento Humano", prefijo |-> "gth", preguntas |-> 10],
    [seccion |-> "Procedimientos Operativos", prefijo |-> "po", preguntas |-> 22],
    [seccion |-> "Servicios Permanentes", prefijo |-> "sp", preguntas |-> 9]>>

\* the questions in the order of the two loops of lines 1465-1466
RECURSIVE PreguntasSST(_)
PreguntasSST(k) ==
  IF k > Len(SeccionesSST) THEN <<>>
  ELSE [n \in 1..SeccionesSST[k].preguntas |->
          [id |-> <<SeccionesSST[k].prefijo, n>>,
           seccion |-> SeccionesSST[k].seccion]]
       \o PreguntasSST(k + 1)

PREGUNTAS_SST == PreguntasSST(1)

\* int(''.join(filter(str.isdigit, pregunta["id"]))), line 1470: the letters
\* of the id are dropped and its digits are read as a number
IdNumerico(id) == id[2]

\* lines 1464-1477: preguntas_respuestas, for the answers the radio buttons
\* hold, by position in the catalog
PreguntasRespuestas(respuestas) ==
  [i \in 1..Len(PREGUNTAS_SST) |->
     [id |-> IdNumerico(PREGUNTAS_SST[i].id),
      seccion |-> PREGUNTAS_SST[i].seccion,
      respuesta |-> respuestas[i]]]

\* formulario_verificacion_page, lines 1460-1500: the form is submitted for
\* the company loaded before (lines 827-836), without a fecha; the backend
\* stores it and the session moves to the reports page
formulario_verificacion_page(ruc, respuestas) ==
  LET formulario == [empresa_ruc |-> ruc, fecha |-> FechaPorDefecto,
                     preguntas |-> PreguntasRespuestas(respuestas)]
  IN /\ Pagina = "formulario_verificacion"
     /\ ruc \in empresas
     /\ formularios' = Guardar(formularios, formulario)
     /\ vista' = [SinVista EXCEPT !.operacion = "formulario_verificacion_page",
                                  !.ruc = ruc,
                                  !.status_code = 200,
                                  !.ultimo_formulario = formulario]
     /\ sesion' = [sesion EXCEPT !.current_page = "reportes"]
     /\ UNCHANGED <<empresas, fichas, pdf, llamada, excel, figuras, hilos>>

RECURSIVE SubconjuntosHasta(_, _)
SubconjuntosHasta(S, k) ==
  IF k = 0 THEN {{}}
  ELSE LET prev == SubconjuntosHasta(S, k - 1)
       IN prev \cup {A \cup {x} : A \in prev, x \in S}

\* the radio buttons of a form in which at most max questions are answered
RespuestasMarcadas(max) ==
  UNION {{[i \in 1..Len(PREGUNTAS_SST) |-> IF i \in A THEN a[i] ELSE SIN_RESPUESTA] :
            a \in [A -> Respuestas \ {SIN_RESPUESTA}]} :
           A \in SubconjuntosHasta(1..Len(PREGUNTAS_SST), max)}

\* the inspector has loaded company "r1" on the form page
InitFormulario ==
  /\ empresas = {"r1"}
  /\ fichas = FichasDe({"r1"})
  /\ formularios = <<>>
  /\ vista = SinVista
  /\ pdf = PdfPendiente
  /\ llamada = SinLlamada
  /\ excel = SinExcel
  /\ figuras = <<>>
  /\ hilos = SinHilos
  /\ sesion = [SesionIniciada EXCEPT !.current_page = "formulario_verificacion"]

NextFormulario ==
  \E respuestas \in RespuestasMarcadas(MaxRespondidas) :
    formulario_verificacion_page("r1", respuestas)

SpecFormulario == InitFormulario /\ [][NextFormulario]_vars

\* --------------------------------------------------- the pages of the UI
\* the buttons of the menu and the quick actions of the dashboard, lines
\* 582-593 and 627-643
PaginasDelMenu == {"dashboard", "gestion_empresas", "formulario_verificacion", "reportes"}

menu(page) ==
  /\ Pagina = "dashboard"
  /\ sesion' = [sesion EXCEPT !.previous_page = sesion.current_page,
                              !.current_page = page]
  /\ vista' = [SinVista EXCEPT !.operacion = "menu"]
  /\ UNCHANGED <<empresas, fichas, formularios, pdf, llamada, excel, figuras, hilos>>

\* go_back, lines 527-533, the callback of the button every page but the
\* dashboard starts with (lines 647-648, 816-817 and 1933-1934)
go_back ==
  /\ Pagina \in {"gestion_empresas", "formulario_verificacion", "reportes"}
  /\ sesion' = [sesion EXCEPT !.current_page =
                                IF sesion.previous_page # NONE
                                THEN sesion.previous_page ELSE "dashboard"]
  /\ vista' = [SinVista EXCEPT !.operacion = "go_back"]
  /\ UNCHANGED <<empresas, fichas, formularios, pdf, llamada, excel, figuras, hilos>>

\* the button of line 2188, which the reports page shows while no company
\* is loaded
ir_a_formulario ==
  /\ Pagina = "reportes"
  /\ sesion' = [sesion EXCEPT !.current_page = "formulario_verificacion"]
  /\ vista' = [SinVista EXCEPT !.operacion = "ir_a_formulario"]
  /\ UNCHANGED <<empresas, fichas, formularios, pdf, llamada, excel, figuras, hilos>>

\* a session from its start: login, the menu, the buttons of the pages that
\* write the session, logout
NextNavegacion ==
  \/ \E cedula \in Cedulas, password \in Cedulas : login_page(cedula, password)
  \/ cerrar_sesion
  \/ \E page \in PaginasDelMenu : menu(page)
  \/ go_back
  \/ ir_a_formulario
  \/ \E respuestas \in RespuestasMarcadas(MaxRespondidas) :
       formulario_verificacion_page("r1", respuestas)

\* the session of lines 321-334 over a store with one company and no form
InitNavegacion ==
  /\ empresas = {"r1"}
  /\ fichas = FichasDe({"r1"})
  /\ formularios = <<>>
  /\ vista = SinVista
  /\ pdf = PdfPendiente
  /\ llamada = SinLlamada
  /\ excel = SinExcel
  /\ figuras = <<>>
  /\ hilos = SinHilos
  /\ sesion = SesionInicial

SpecNavegacion == InitNavegacion /\ [][NextNavegacion]_vars

\* ------------------------------------------ two reports at the same time
\* Streamlit runs the script of each session in a thread of its own, all in
\* one process: two sessions that press the PDF button run
\* generate_pdf_report at the same time. matplotlib.pyplot (line 9) keeps
\* the open figures in one registry of the process, the current figure
\* last; plt.savefig() and plt.close() act on the current figure, whoever
\* opened it. The names of the temporary files are unique.
InformeDe(ruc) ==
  LET response == generar_reporte_empresa(empresas, formularios, ruc)
  IN generate_pdf_report(ruc, response.estadisticas,
                         response.ultimo_formulario.preguntas,
                         "Sin observaciones", EntornoNominal)

\* the charts of the report of a company, in the order they are drawn
FigurasDe(ruc) ==
  SelectSeq(InformeDe(ruc).bloques,
            LAMBDA b : b.tipo \in {"grafico_pastel", "grafico_barras"})

\* plt.gcf(): the current figure, a new empty one when no figure is open
FiguraVacia(h) == [hilo |-> h, bloque |-> Bloque("figura_vacia", "", "", <<>>)]
Gcf(h) == IF figuras = <<>> THEN FiguraVacia(h) ELSE figuras[Len(figuras)]

\* plt.subplots and the drawing on the axes it returns, lines 1619-1636,
\* 1681-1691 and 1751-1766: a new figure, which becomes the current one
subplots(h) ==
  /\ hilos[h].pc = "subplots"
  /\ figuras' = Append(figuras,
                       [hilo |-> h, bloque |-> FigurasDe(hilos[h].ruc)[hilos[h].k]])
  /\ hilos' = [hilos EXCEPT ![h].pc = "savefig"]
  /\ UNCHANGED <<empresas, fichas, formularios, vista, pdf, llamada, excel, sesion>>

\* plt.savefig(tmp_path), lines 1642, 1696 and 1768: the current figure is
\* written to the thread's temporary file, which pdf.image embeds (lines
\* 1646, 1700 and 1771)
savefig(h) ==
  /\ hilos[h].pc = "savefig"
  /\ figuras' = IF figuras = <<>> THEN <<FiguraVacia(h)>> ELSE figuras
  /\ hilos' = [hilos EXCEPT ![h].pc = "close",
                            ![h].graficos = Append(@, Gcf(h))]
  /\ UNCHANGED <<empresas, fichas, formularios, vista, pdf, llamada, excel, sesion>>

\* plt.close(), lines 1643, 1697 and 1769: the current figure is closed and
\* the one opened before it becomes the current one
close(h) ==
  /\ hilos[h].pc = "close"
  /\ figuras' = IF figuras = <<>> THEN <<>>
                ELSE SubSeq(figuras, 1, Len(figuras) - 1)
  /\ hilos' = [hilos EXCEPT ![h].k = @ + 1,
                            ![h].pc = IF hilos[h].k < Len(FigurasDe(hilos[h].ruc))
                                      THEN "subplots" ELSE "fin"]
  /\ UNCHANGED <<empresas, fichas, formularios, vista, pdf, llamada, excel, sesion>>

\* each of the two companies has one form of one question with any answer,
\* and each thread starts the report of one of them
InitConcurrente ==
  /\ empresas = {"r1", "r2"}
  /\ fichas = FichasDe({"r1", "r2"})
  /\ \E r1 \in Respuestas, r2 \in Respuestas :
       formularios =
         <<[empresa_ruc |-> "r1", fecha |-> 1,
            preguntas |-> <<[seccion |-> "S1", respuesta |-> r1]>>],
           [empresa_ruc |-> "r2", fecha |-> 1,
            preguntas |-> <<[seccion |-> "S1", respuesta |-> r2]>>]>>
  /\ vista = SinVista
  /\ pdf = PdfPendiente
  /\ llamada = SinLlamada
  /\ excel = SinExcel
  /\ sesion = SesionIniciada
  /\ figuras = <<>>
  /\ hilos = [h \in Hilos |->
                [ruc |-> IF h = "A" THEN "r1" ELSE "r2", pc |-> "subplots",
                 k |-> 1, graficos |-> <<>>]]

NextConcurrente ==
  \E h \in Hilos : subplots(h) \/ savefig(h) \/ close(h)

SpecConcurrente == InitConcurrente /\ [][NextConcurrente]_vars

\* --------------------------------------------------- the classification
\* The range of ratios the status of a report is asked for, in thousandths
\* of a percent: [0, 100].
Ratios == 0..100000

InitClasificador ==
  /\ empresas = {"r1"}
  /\ fichas = FichasDe({"r1"})
  /\ formularios = <<>>
  /\ vista \in {[SinVista EXCEPT !.operacion = "reportes_page", !.ruc = "r1",
                                 !.status_code = 200, !.resultado = "reporte",
                                 !.estadisticas.cumplimiento_promedio = r] :
                  r \in Ratios}
  /\ pdf = PdfPendiente
  /\ llamada = SinLlamada
  /\ excel = SinExcel
  /\ figuras = <<>>
  /\ hilos = SinHilos
  /\ sesion = SesionIniciada

\* generate_pdf_report called on statistics that carry the ratio
generar_pdf ==
  /\ pdf = PdfPendiente
  /\ pdf' = generate_pdf_report(vista.ruc, vista.estadisticas,
                                vista.ultimo_formulario.preguntas,
                                "Sin observaciones", EntornoNominal)
  /\ llamada' = Llamada(vista.ruc, vista.estadisticas,
                        vista.ultimo_formulario.preguntas,
                        "Sin observaciones", EntornoNominal)
  /\ UNCHANGED <<empresas, fichas, formularios, vista, excel, sesion, figuras, hilos>>

NextClasificador == generar_pdf

SpecClasificador == InitClasificador /\ [][NextClasificador]_vars

\* ------------------------------------------- statistics given by a caller
\* generate_pdf_report takes its statistics as an argument: here they are
\* those of one section with any counts, negative ones and sums above the
\* total included, and not the result of an aggregation.
Conteos == -1..MaxConteo

InitEstadisticas ==
  /\ empresas = {"r1"}
  /\ fichas = FichasDe({"r1"})
  /\ formularios = <<>>
  /\ vista \in {[SinVista EXCEPT !.operacion = "reportes_page", !.ruc = "r1",
                                 !.status_code = 200, !.resultado = "reporte",
                                 !.estadisticas.secciones = <<fila>>] :
                  fila \in [seccion : {"S1"}, total : Conteos, cumple : Conteos,
                            no_cumple : Conteos, no_aplica : Conteos]}
  /\ pdf = PdfPendiente
  /\ llamada = SinLlamada
  /\ excel = SinExcel
  /\ figuras = <<>>
  /\ hilos = SinHilos
  /\ sesion = SesionIniciada

\* generate_pdf_report called on these statistics, in any environment
generar_pdf_en(entorno) ==
  /\ pdf = PdfPendiente
  /\ pdf' = generate_pdf_report(vista.ruc, vista.estadisticas,
                                vista.ultimo_formulario.preguntas,
                                "Sin observaciones", entorno)
  /\ llamada' = Llamada(vista.ruc, vista.estadisticas,
                        vista.ultimo_formulario.preguntas,
                        "Sin observaciones", entorno)
  /\ UNCHANGED <<empresas, fichas, formularios, vista, excel, sesion, figuras, hilos>>

NextEstadisticas == \E entorno \in Entornos(MaxFallas) : generar_pdf_en(entorno)

SpecEstadisticas == InitEstadisticas /\ [][NextEstadisticas]_vars

\* ================================================================ claims
\* what the properties below read off the state
Informe == vista.resultado = "reporte"
HayPdf == pdf.tipo = "informe"
Filas == vista.estadisticas.secciones
Promedio == vista.estadisticas.cumplimiento_promedio
\* the questions of all stored forms of the reported company, as
\* <<form, position>> pairs
Items ==
  UNION {{<<i, j>> : j \in 1..Len(formularios[i].preguntas)} :
           i \in {k \in 1..Len(formularios) : formularios[k].empresa_ruc = vista.ruc}}
ItemsCon(rs) == {x \in Items : formularios[x[1]].preguntas[x[2]].respuesta \in rs}
ItemsDe(seccion) == {x \in Items : formularios[x[1]].preguntas[x[2]].seccion = seccion}
\* ratio is c/t as a percentage rounded to the nearest step (thousandths)
EsRedondeo(ratio, c, t, paso) ==
  /\ ratio % paso = 0
  /\ 2 * (ratio \div paso) * t - 2 * (100000 \div paso) * c <= t
  /\ 2 * (100000 \div paso) * c - 2 * (ratio \div paso) * t <= t
BloquesDe(tipo) == {i \in 1..Len(pdf.bloques) : pdf.bloques[i].tipo = tipo}

\* C1 (as stated): the overall ratio is 100 * compliant / applicable, the
\* applicable items being those not answered NotApplicable, and 0 when no
\* item is applicable.
C1_Original ==
  Informe =>
    LET c == Cardinality(ItemsCon({CUMPLE}))
        a == Cardinality(Items \ ItemsCon({NO_APLICA}))
    IN IF a > 0 THEN EsRedondeo(Promedio, c, a, 10) ELSE Promedio = 0

\* C1 (amended): the overall ratio is 100 * compliant / items rounded to two
\* decimals, the items being all questions of all stored forms of the
\* company, NotApplicable and unanswered ones included, and 0 when there is
\* no question; 4 of 6 compliant gives 66.67 and the status ACEPTABLE.
C1_Amended ==
  /\ Informe =>
       LET c == Cardinality(ItemsCon({CUMPLE}))
           t == Cardinality(Items)
       IN IF t > 0 THEN EsRedondeo(Promedio, c, t, 10) ELSE Promedio = 0
  /\ Round2Pct(4, 6) = 66670
  /\ Estado(Round2Pct(4, 6)) = "ACEPTABLE"

C1_Witness ==
  /\ Informe
  /\ Promedio = 33330
  /\ ItemsCon({NO_APLICA}) # {}
  /\ ItemsCon({NO_CUMPLE}) # {}

\* C2: the overall ratio of a response is (sum of cumple) / (sum of total)
\* * 100 over the section statistics of the same response, rounded to two
\* decimals, and 0 when the sum of totals is 0.
C2_RatioFromSections ==
  Informe =>
    LET c == Suma(Filas, "cumple")
        t == Suma(Filas, "total")
    IN IF t > 0 THEN EsRedondeo(Promedio, c, t, 10) ELSE Promedio = 0

C2_Witness ==
  /\ Informe
  /\ Len(Filas) = 2
  /\ Promedio = 66670

\* C3: the status of a report is EXCELENTE exactly for ratios >= 80,
\* ACEPTABLE exactly for 50 <= ratio < 80 and INSUFICIENTE exactly for
\* ratio < 50: one status for every ratio of [0, 100].
C3_Classification ==
  HayPdf =>
    /\ Cardinality(BloquesDe("estado_general")) = 1
    /\ \A i \in BloquesDe("estado_general") :
      LET e == pdf.bloques[i].txt
          r == pdf.bloques[i].val[1]
      IN /\ r = Promedio
         /\ e \in {"EXCELENTE", "ACEPTABLE", "INSUFICIENTE"}
         /\ (e = "EXCELENTE") <=> (r >= 80000)
         /\ (e = "ACEPTABLE") <=> (r >= 50000 /\ r < 80000)
         /\ (e = "INSUFICIENTE") <=> (r < 50000)

C3_Witness ==
  /\ HayPdf
  /\ Promedio = 79999
  /\ \E i \in BloquesDe("estado_general") : pdf.bloques[i].txt = "ACEPTABLE"

\* the most recent form of the reported company
Reciente ==
  CHOOSE i \in 1..Len(formularios) :
    /\ formularios[i].empresa_ruc = vista.ruc
    /\ \A k \in 1..Len(formularios) :
         formularios[k].empresa_ruc = vista.ruc
           => formularios[k].fecha <= formularios[i].fecha

\* C4 (as stated): the section counts and the overall ratio come from the
\* answers of the most recent form only.
C4_Original ==
  Informe =>
    LET ps == formularios[Reciente].preguntas
    IN /\ Filas = ContarPreguntas(<<>>, ps)
       /\ Promedio = IF ps = <<>> THEN 0 ELSE Round2Pct(ContarCumple(ps), Len(ps))

\* C4 (amended): the section counts and the overall ratio come from the
\* answers of all stored forms of the company: a question of an older form
\* is counted like one of the most recent form.
C4_Amended ==
  Informe =>
    /\ Suma(Filas, "total") = Cardinality(Items)
    /\ \A k \in 1..Len(Filas) :
         LET del == ItemsDe(Filas[k].seccion)
         IN /\ Filas[k].total = Cardinality(del)
            /\ Filas[k].cumple = Cardinality(del \cap ItemsCon({CUMPLE}))
            /\ Filas[k].no_cumple = Cardinality(del \cap ItemsCon({NO_CUMPLE}))
            /\ Filas[k].no_aplica
                 = Cardinality(del \cap ItemsCon({NO_APLICA, SIN_RESPUESTA}))
    /\ \A x \in Items :
         \E k \in 1..Len(Filas) :
           Filas[k].seccion = formularios[x[1]].preguntas[x[2]].seccion

C4_Witness ==
  /\ Informe
  /\ Len(formularios) = 2
  /\ \A i \in 1..2 : formularios[i].preguntas # <<>>
  /\ Suma(Filas, "total") > Len(formularios[Reciente].preguntas)

\* C5: in every section cumple + no_cumple + no_aplica <= total, and the
\* difference is the number of unanswered questions of the section, which
\* are counted in none of the three.
C5_UnansweredApart ==
  Informe =>
    \A k \in 1..Len(Filas) :
      /\ Filas[k].cumple + Filas[k].no_cumple + Filas[k].no_aplica <= Filas[k].total
      /\ Filas[k].total - (Filas[k].cumple + Filas[k].no_cumple + Filas[k].no_aplica)
           = Cardinality(ItemsDe(Filas[k].seccion) \cap ItemsCon({SIN_RESPUESTA}))

\* the percentages the report shows for the section of row k
PorcentajesMostrados(k) ==
  {pdf.bloques[i].val[4] : i \in {b \in BloquesDe("fila_tabla") :
                                    pdf.bloques[b].seccion = Filas[k].seccion}}
  \cup {pdf.bloques[i].val[1] : i \in {b \in BloquesDe("seccion_porcentaje") :
                                         pdf.bloques[b].seccion = Filas[k].seccion}}
  \cup {pdf.bloques[i].val[k] : i \in BloquesDe("grafico_barras")}

\* C6: the percentage a report shows for a section, in the bar chart, the
\* table and the section's detail, is cumple / (total - no_aplica) * 100
\* (to the one decimal shown) when total - no_aplica > 0 and 0 otherwise,
\* the same in the three places.
C6_SectionPercentage ==
  HayPdf =>
    \A k \in 1..Len(Filas) :
      LET aplicable == Filas[k].total - Filas[k].no_aplica
      IN /\ Cardinality(PorcentajesMostrados(k)) = 1
         /\ \A q \in PorcentajesMostrados(k) :
              IF aplicable > 0
              THEN EsRedondeo(q, Filas[k].cumple, aplicable, 100)
              ELSE q = 0
         /\ \E b \in BloquesDe("fila_tabla") : pdf.bloques[b].seccion = Filas[k].seccion
         /\ \E b \in BloquesDe("seccion_porcentaje") :
              pdf.bloques[b].seccion = Filas[k].seccion

C6_Witness ==
  /\ HayPdf
  /\ BloquesDe("grafico_barras") # {}
  /\ Len(Filas) = 2
  /\ Filas[1].total - Filas[1].no_aplica = 0
  /\ PorcentajesMostrados(1) = {0}
  /\ PorcentajesMostrados(2) = {50000}
  /\ Filas[2].total = 2

C8_NoForms ==
  (/\ vista.operacion = "reportes_page"
   /\ \A i \in 1..Len(formularios) : formularios[i].empresa_ruc # vista.ruc)
  => /\ vista.status_code = 404
     /\ vista.resultado = "datos_insuficientes"
     /\ vista.estadisticas = SinEstadisticas
     /\ vista.ultimo_formulario = SinFormulario
     /\ ~vista.pdf_solicitado
     /\ pdf = PdfPendiente

C8_Witness ==
  /\ vista.operacion = "reportes_page"
  /\ vista.ruc \in empresas
  /\ formularios = <<>>
  /\ vista.resultado = "datos_insuficientes"

\* how often question i of the reported form is listed as a non-conformity
\* of the given section
RECURSIVE Veces(_, _)
Veces(lista, i) ==
  IF lista = <<>> THEN 0
  ELSE (IF Head(lista) = i THEN 1 ELSE 0) + Veces(Tail(lista), i)
ListasDe(seccion) ==
  {b \in BloquesDe("no_conformidades") : pdf.bloques[b].seccion = seccion}

C10_NoEscape == pdf.tipo \in {"pendiente", "informe", "error"}

\* the report the same call gives when its charts can all be drawn, and when
\* no logo is supplied
SinFallidos == [llamada.entorno EXCEPT !.fallidos = {}, !.modo = "sin_tmp"]
SinLogos ==
  [llamada.entorno EXCEPT !.logo_sesaco = "ninguno", !.logo_empresa = "ninguno"]
InformeCon(entorno) ==
  generate_pdf_report(llamada.empresa, llamada.estadisticas, llamada.preguntas,
                      llamada.observaciones_generales, entorno)
\* the chart a chart block shows
IdGrafico(b) ==
  IF b.tipo = "grafico_barras" THEN "barras"
  ELSE IF b.seccion = "" THEN "general" ELSE b.seccion
EsGrafico(b) == b.tipo \in {"grafico_pastel", "grafico_barras"}
Fallidos == llamada.entorno.fallidos \cap GraficosDe(llamada.estadisticas.secciones)

C12_TmpDeleted == llamada.hecha => pdf.tmp = 0

\* the logo given for a slot of the header, and the slot's blocks
LogoDe(slot) ==
  IF slot = "sesaco" THEN llamada.entorno.logo_sesaco ELSE llamada.entorno.logo_empresa
BloquesDeLogo(slot) ==
  {i \in BloquesDe("logo_imagen") \cup BloquesDe("logo_texto") :
     pdf.bloques[i].txt = slot}
Slots == {"sesaco", "empresa"}

\* C13: when a supplied logo cannot be decoded and nothing fails outside the
\* inner try blocks, the report is produced: the logo's slot holds the text
\* that stands for it and no image, the title with the company's name and
\* RUC follows the logo slots, and from the title on the report is that of
\* the same call without logos.
C13_LogoFallback ==
  (/\ llamada.hecha
   /\ llamada.entorno.grave = "no"
   /\ \E slot \in Slots : LogoDe(slot) = "corrupto")
  => /\ pdf.tipo = "informe"
     /\ \A slot \in Slots :
          LogoDe(slot) = "corrupto"
            => /\ Cardinality(BloquesDeLogo(slot)) = 1
               /\ \A i \in BloquesDeLogo(slot) : pdf.bloques[i].tipo = "logo_texto"
     /\ LET n == Cardinality(UNION {BloquesDeLogo(slot) : slot \in Slots})
            resto == InformeCon(SinLogos).bloques
        IN /\ \A i \in 1..n : pdf.bloques[i].tipo \in {"logo_imagen", "logo_texto"}
           /\ pdf.bloques[n + 1].tipo = "titulo"
           /\ pdf.bloques[n + 1].txt = llamada.empresa
           /\ SubSeq(pdf.bloques, n + 1, Len(pdf.bloques)) = resto

C13_Witness ==
  /\ llamada.hecha
  /\ llamada.entorno.logo_empresa = "corrupto"
  /\ llamada.entorno.logo_sesaco = "valido"
  /\ pdf.tipo = "informe"
  /\ pdf.bloques[1].tipo = "logo_imagen"
  /\ pdf.bloques[2].tipo = "logo_texto"
  /\ pdf.bloques[3].tipo = "titulo"
  /\ BloquesDe("no_conformidades") # {}

\* C14 (as stated): a slot for which no logo is supplied holds the text
\* that stands for a logo, as a slot whose logo cannot be decoded does.
C14_Original ==
  HayPdf =>
    \A slot \in Slots :
      LogoDe(slot) = "ninguno"
        => \E i \in BloquesDeLogo(slot) : pdf.bloques[i].tipo = "logo_texto"

\* C14 (amended): a slot for which no logo is supplied holds nothing,
\* neither an image nor a text; the text that stands for a logo is written
\* only in the slot of a supplied logo that cannot be decoded, and a logo
\* that can be decoded is shown as an image.
C14_Amended ==
  HayPdf =>
    \A slot \in Slots :
      /\ LogoDe(slot) = "ninguno" => BloquesDeLogo(slot) = {}
      /\ LogoDe(slot) # "ninguno" => Cardinality(BloquesDeLogo(slot)) = 1
      /\ \A i \in BloquesDeLogo(slot) :
           pdf.bloques[i].tipo
             = IF LogoDe(slot) = "corrupto" THEN "logo_texto" ELSE "logo_imagen"

C14_Witness ==
  /\ HayPdf
  /\ llamada.hecha
  /\ LogoDe("sesaco") = "ninguno"
  /\ LogoDe("empresa") = "corrupto"
  /\ BloquesDeLogo("sesaco") = {}
  /\ Cardinality(BloquesDeLogo("empresa")) = 1
  /\ pdf.bloques[2].tipo = "titulo"

\* the format each answer is to get, and the answers of the exported form
FormatoDe(respuesta) ==
  IF respuesta = CUMPLE THEN "format_green"
  ELSE IF respuesta = NO_CUMPLE THEN "format_red"
  ELSE "format_gray"
Exportadas == formularios[Reciente].preguntas

\* C15 (as stated): in the exported sheet every data row has exactly one of
\* the three formats on its Cumplimiento cell.
C15_Original ==
  excel.hecho =>
    \A i \in 1..Len(excel.filas) : Cardinality(excel.filas[i].estilos) = 1

\* C15 (amended): a data row, among the first 999, whose answer is Cumple,
\* No cumple or No aplica has exactly one format on its Cumplimiento cell,
\* the one of its answer;
\* the row of a question without answer has an empty cell and no format; no
\* row has two. The answers Cumple, No cumple, No aplica give three rows
\* with three different formats.
C15_Amended ==
  /\ excel.hecho =>
       /\ Len(excel.filas) = Len(Exportadas)
       /\ \A i \in 1..Len(excel.filas) :
            i <= 999 =>
              excel.filas[i].estilos
                = IF Exportadas[i].respuesta = SIN_RESPUESTA THEN {}
                  ELSE {FormatoDe(Exportadas[i].respuesta)}
  /\ LET hoja == exportar_excel(<<[seccion |-> "S1", respuesta |-> CUMPLE],
                                  [seccion |-> "S1", respuesta |-> NO_CUMPLE],
                                  [seccion |-> "S1", respuesta |-> NO_APLICA]>>)
     IN /\ Len(hoja.filas) = 3
        /\ hoja.filas[1].estilos = {"format_green"}
        /\ hoja.filas[2].estilos = {"format_red"}
        /\ hoja.filas[3].estilos = {"format_gray"}

C15_Witness ==
  /\ excel.hecho
  /\ Len(excel.filas) = 3
  /\ excel.filas[1].estilos = {"format_red"}
  /\ excel.filas[2].estilos = {}
  /\ excel.filas[3].estilos = {"format_green"}

\* the questions of the exported form that have an answer
Respondidas == {i \in 1..Len(Exportadas) : Exportadas[i].respuesta # SIN_RESPUESTA}

C17_SameArgumentsSameBlocks ==
  [][(llamada.hecha /\ llamada' = llamada) => pdf'.bloques = pdf.bloques]_vars

\* section statistics that no aggregation can produce
Inconsistente(secs) ==
  \E k \in 1..Len(secs) :
    \/ secs[k].total < 0 \/ secs[k].cumple < 0
    \/ secs[k].no_cumple < 0 \/ secs[k].no_aplica < 0
    \/ secs[k].cumple + secs[k].no_cumple + secs[k].no_aplica > secs[k].total

C19_Original ==
  (/\ Informe
   /\ Exportadas # <<>>
   /\ \A i \in 1..Len(Exportadas) : Exportadas[i].respuesta = SIN_RESPUESTA)
  => /\ Promedio = 0
     /\ HayPdf =>
          /\ \A i \in BloquesDe("estado_general") :
               pdf.bloques[i].txt = "INSUFICIENTE"
          /\ \A k \in 1..Len(Filas) : PorcentajesMostrados(k) = {0}

\* C19 (amended): when the stored forms of the company have questions and
\* none of them, in any form, has an answer, the overall ratio is 0, the
\* status INSUFICIENTE and the percentage of every section 0.
C19_Amended ==
  (/\ Informe
   /\ Items # {}
   /\ Items = ItemsCon({SIN_RESPUESTA}))
  => /\ Promedio = 0
     /\ Filas # <<>>
     /\ HayPdf =>
          /\ Cardinality(BloquesDe("estado_general")) = 1
          /\ \A i \in BloquesDe("estado_general") :
               pdf.bloques[i].txt = "INSUFICIENTE" /\ pdf.bloques[i].val = <<0>>
          /\ \A k \in 1..Len(Filas) : PorcentajesMostrados(k) = {0}

C19_Witness ==
  /\ HayPdf
  /\ Len(formularios) = 2
  /\ Cardinality(Items) = 3
  /\ Items = ItemsCon({SIN_RESPUESTA})
  /\ Len(Filas) = 2
  /\ Promedio = 0

\* what a report of the company carries, 0 when the request is refused
TotalDe(regs, db, ruc) ==
  generar_reporte_empresa(regs, db, ruc).estadisticas.total_verificaciones
UltimaDe(regs, db, ruc) ==
  generar_reporte_empresa(regs, db, ruc).estadisticas.ultima_verificacion

\* C20: every form submitted for a registered company adds one to the
\* total_verificaciones of the company's report, and ultima_verificacion is
\* the greatest fecha submitted so far.
C20_CountsSubmissions ==
  [][(vista'.operacion = "guardar_formulario" /\ vista'.ruc \in empresas)
       => /\ TotalDe(empresas', formularios', vista'.ruc)
               = TotalDe(empresas, formularios, vista'.ruc) + 1
          /\ UltimaDe(empresas', formularios', vista'.ruc)
               = IF vista'.ultimo_formulario.fecha
                      > UltimaDe(empresas, formularios, vista'.ruc)
                 THEN vista'.ultimo_formulario.fecha
                 ELSE UltimaDe(empresas, formularios, vista'.ruc)]_vars

\* C21: in a form built by formulario_verificacion_page from the catalog
\* no two questions carry the same id.
C21_UniqueIds ==
  vista.operacion = "formulario_verificacion_page" =>
    \A i, j \in 1..Len(vista.ultimo_formulario.preguntas) :
      i # j => vista.ultimo_formulario.preguntas[i].id
               # vista.ultimo_formulario.preguntas[j].id

\* C22: when two reports are generated at the same time, every image a
\* thread embeds is a chart it has drawn itself from the statistics of its
\* own report, in the order of its charts, under every interleaving.
C22_OwnCharts ==
  \A h \in Hilos :
    \A i \in 1..Len(hilos[h].graficos) :
      hilos[h].graficos[i] = [hilo |-> h, bloque |-> FigurasDe(hilos[h].ruc)[i]]

\* the position of the one block of a type, and the positions of the blocks
\* that belong to the sections
Pos(tipo) == CHOOSE i \in BloquesDe(tipo) : TRUE
Una(tipo) == Cardinality(BloquesDe(tipo)) = 1
DeSeccion == {i \in 1..Len(pdf.bloques) : pdf.bloques[i].seccion # ""}
TitulosDeSeccion ==
  SelectSeq(pdf.bloques, LAMBDA b : b.tipo = "seccion_titulo")

C24_SameTier ==
  HayPdf =>
    /\ Una("recomendaciones") /\ Una("estado_general")
    /\ Una("conclusiones") /\ Una("narrativa")
    /\ pdf.bloques[Pos("recomendaciones")].txt = pdf.bloques[Pos("estado_general")].txt
    /\ pdf.bloques[Pos("conclusiones")].txt = pdf.bloques[Pos("estado_general")].txt
    /\ pdf.bloques[Pos("narrativa")].txt = pdf.bloques[Pos("estado_general")].txt
    /\ pdf.bloques[Pos("conclusiones")].val = pdf.bloques[Pos("estado_general")].val

C24_Witness ==
  /\ HayPdf
  /\ Promedio = 50000
  /\ pdf.bloques[Pos("recomendaciones")].txt = "ACEPTABLE"
  /\ pdf.bloques[Pos("estado_general")].txt = "ACEPTABLE"

\* the stored forms under the key of a save
ConClave(db, ruc, fecha) ==
  {i \in 1..Len(db) : db[i].empresa_ruc = ruc /\ db[i].fecha = fecha}

\* C25 (as stated): the store holds at most one form per (empresa_ruc,
\* fecha) pair, the fechas being compared as datetimes.
C25_Original ==
  \A i, j \in 1..Len(formularios) :
    (/\ formularios[i].empresa_ruc = formularios[j].empresa_ruc
     /\ MismoInstante(formularios[i].fecha, formularios[j].fecha)) => i = j

\* C25 (amended): the store holds at most one form per pair of empresa_ruc
\* and text of the fecha (local time and UTC offset as sent). A save under a
\* stored pair replaces that form where it is and adds none; a save under a
\* new pair adds the form at the end, also when its fecha is the instant of
\* a stored form written with another offset. The other forms stay as they
\* are.
C25_Amended ==
  [][vista'.operacion = "guardar_formulario" =>
       LET f == vista'.ultimo_formulario
           antes == ConClave(formularios, f.empresa_ruc, f.fecha)
       IN /\ Cardinality(antes) <= 1
          /\ Cardinality(ConClave(formularios', f.empresa_ruc, f.fecha)) = 1
          /\ IF antes = {}
             THEN formularios' = Append(formularios, f)
             ELSE /\ Len(formularios') = Len(formularios)
                  /\ \A i \in 1..Len(formularios) :
                       formularios'[i] = IF i \in antes THEN f ELSE formularios[i]]_vars

C25_Witness ==
  /\ vista.operacion = "guardar_formulario"
  /\ Len(formularios) = 2
  /\ formularios[1].empresa_ruc = formularios[2].empresa_ruc
  /\ formularios[1].fecha = [hora |-> 2, zona |-> "+01:00"]
  /\ formularios[2].fecha = [hora |-> 1, zona |-> "+00:00"]
  /\ vista.ultimo_formulario = formularios[1]
  /\ formularios[1].preguntas # <<>>

\* C26: the form a report returns as ultimo_formulario is the company's
\* form of the greatest fecha, the ultima_verificacion of the same report,
\* whatever the order in which the forms were saved.
C26_LatestForm ==
  (vista.operacion = "generar_reporte_empresa" /\ vista.status_code = 200) =>
    /\ vista.ultimo_formulario.empresa_ruc = vista.ruc
    /\ vista.ultimo_formulario.fecha = vista.estadisticas.ultima_verificacion

\* the number of items the non-conformity listings of these blocks hold
RECURSIVE Listadas(_)
Listadas(bs) ==
  IF bs = <<>> THEN 0
  ELSE (IF Head(bs).tipo = "no_conformidades" THEN Len(Head(bs).val) ELSE 0)
       + Listadas(Tail(bs))

\* C27: in a report built by reportes_page the number of non-conformities
\* the narrative of the executive summary states is the number of items the
\* non-conformity listings of the sections hold together.
C27_CountMatchesListings ==
  (vista.operacion = "reportes_page" /\ HayPdf) =>
    /\ Una("narrativa")
    /\ pdf.bloques[Pos("narrativa")].val[2] = Listadas(pdf.bloques)

\* C28: crear_empresa with a RUC that is registered answers 400 and leaves
\* the companies as they are; with a RUC that is not, it stores the record
\* sent. No step changes or removes the record stored for a RUC: it stays
\* the one of the first registration.
C28_FirstRegistrationStays ==
  [][/\ \A r \in empresas : r \in empresas' /\ fichas'[r] = fichas[r]
     /\ DOMAIN fichas' = empresas'
     /\ (vista'.operacion = "crear_empresa" /\ vista'.status_code # 401) =>
          IF vista'.ruc \in empresas
          THEN /\ vista'.status_code = 400
               /\ empresas' = empresas
               /\ fichas' = fichas
          ELSE /\ vista'.status_code = 200
               /\ empresas' = empresas \cup {vista'.ruc}
               /\ fichas'[vista'.ruc] =
                    [ruc |-> vista'.ruc, razon_social |-> vista'.resultado]]_vars

C28_Witness ==
  /\ vista.operacion = "crear_empresa"
  /\ vista.status_code = 400
  /\ vista.ruc = "r1"
  /\ fichas["r1"].razon_social = "b"
  /\ "r2" \in empresas

\* C29: an endpoint that declares the bearer-token dependency refuses a
\* request whose token is not the cedula of a registered user: the request
\* is answered 401, and nothing of the store is in the answer.
C29_UnknownTokenRejected ==
  (/\ vista.operacion \in {"crear_empresa", "buscar_empresa", "guardar_formulario",
                           "generar_reporte_empresa"}
   /\ vista.cedula # CedulaPrincipal)
  => /\ vista.status_code = 401
     /\ vista.resultado = ""
     /\ vista.estadisticas = SinEstadisticas

\* what the pages other than the login page do
DePaginaInterna ==
  {"menu", "go_back", "ir_a_formulario", "cerrar_sesion",
   "formulario_verificacion_page"}

\* C30: in a session, a page other than the login page is rendered, and
\* acts, only while logged_in is true, and the session then holds a token;
\* logout leaves logged_in false and the token None; while logged_in is
\* false the login page is rendered, and only a login that succeeds makes
\* logged_in true.
C30_SessionGate ==
  [][/\ vista'.operacion \in DePaginaInterna
          => sesion.logged_in /\ sesion.token # NONE /\ Pagina \in PaginasDelMenu
     /\ vista'.operacion = "cerrar_sesion"
          => ~sesion'.logged_in /\ sesion'.token = NONE /\ Pagina' = "login"
     /\ ~sesion.logged_in
          => /\ Pagina = "login"
             /\ sesion.token = NONE
             /\ vista'.operacion = "login_page"
             /\ sesion'.logged_in <=> vista'.status_code = 200
             /\ ~sesion'.logged_in => sesion' = sesion /\ Pagina' = "login"]_vars

C30_Witness ==
  /\ vista.operacion = "login_page"
  /\ vista.status_code = 401
  /\ ~sesion.logged_in
  /\ sesion.token = NONE
  /\ sesion.current_page = "inicio"
  /\ sesion.previous_page = "dashboard"
  /\ sesion.user_info # <<>>
  /\ Len(formularios) = 1

====
